---- MODULE Spec2Model ----
(***************************************************************************)
(* Model of the configuration bootstrap of pkg/common/cmd/root.go:         *)
(* RootCmd.persistentPreRun and the steps it sequences (initEtcd,          *)
(* initializeConfiguration, updateConfigFromEtcd, initializeLogger and the *)
(* final Close of the etcd client).                                        *)
(***************************************************************************)
EXTENDS Integers, FiniteSets, Sequences, TLC

\* ---------------------------------------------------------------- bounds
\* Largest value a field of a configuration structure takes.
MaxVal == 1

\* ------------------------------------------------------------- constants
\* disetcd.Enable / disetcd.Disable / disetcd.EnableConfigCenterKey
Enable == "enable"
Disable == "disable"
EnableConfigCenterKey == "enable-config-center"
\* kdisc.ETCDCONST
ETCDCONST == "etcd"
\* config.LogConfigFileName
LogConfigFileName == "log"
\* The file names a caller may register through WithConfigMap.
ShareFileName == "share"
ChatFileName == "chat"

\* The slot of r.log; every other slot is a key of opts.configMap.
LogSlot == "r.log"

\* The maps a caller may pass: defaultCmdOpts leaves configMap nil.
ConfigMaps == {{}, {ShareFileName}}

Slots(cm) == cm \cup {LogSlot}

\* update() called for r.log with a name no entry has.
NameOfLogFree(s) == IF s = LogSlot THEN "free" ELSE s

\* update() called with the log file name for every entry.
NameOfAlwaysLog(s) == LogConfigFileName

\* The file name update() is called with for a slot (lines 197-204).
NameOf(s) == IF s = LogSlot THEN LogConfigFileName ELSE s

\* disetcd.BuildKey: a namespaced key for a logical name.
BuildKey(name) == <<"chat-config", name>>

ControlKey == BuildKey(EnableConfigCenterKey)

\* Keys of the store that belong to no entry of this process: one that
\* holds nothing and one that holds a record.
FreeKey == BuildKey("free")
ForeignKey == BuildKey("foreign")

\* The keys of the store: the control key, the key of every entry update()
\* is called for, and the two keys no entry derives.
KeysFor(cm) ==
    {ControlKey, FreeKey, ForeignKey} \cup {BuildKey(NameOf(s)) : s \in Slots(cm)}

\* ------------------------------------------------- configuration structs
\* A configuration structure: two exported scalar fields.
Fields == {"a", "b"}
FieldVal == 0..MaxVal
Value == [Fields -> FieldVal]
\* The Go zero value a structure holds before anything is loaded into it.
ZeroValue == [f \in Fields |-> 0]

\* ------------------------------------------------------------ store bytes
\* A member of a stored JSON object: a number, a string (which does not fit
\* a numeric field) or no member of that name at all.
JNum(n) == [t |-> "num", n |-> n]
JStr == [t |-> "str", n |-> 0]
JMissing == [t |-> "missing", n |-> 0]
JV == {JStr, JMissing} \cup {JNum(n) : n \in FieldVal}
NoObj == [f \in Fields |-> JMissing]

\* What a key of the store holds: nothing, plain text (not JSON), or a JSON
\* object.
Absent == [kind |-> "absent", text |-> "", obj |-> NoObj]
Text(s) == [kind |-> "text", text |-> s, obj |-> NoObj]
Json(o) == [kind |-> "json", text |-> "", obj |-> o]
\* A Get that has not been issued, and one that returned an error.
NoRes == [kind |-> "none", text |-> "", obj |-> NoObj]
ErrRes == [kind |-> "err", text |-> "", obj |-> NoObj]

ControlBytes == {Absent, Text(Enable), Text(Disable), Text("maybe")}
EntryBytes == {Absent, Text("maybe")} \cup {Json(o) : o \in [Fields -> JV]}
\* The same cases with fewer records: complete records with one number in
\* every field, records with member a only, and a record whose member a has
\* the wrong type.
MapBytes == {Absent, Text("maybe")} \cup
            {Json([f \in Fields |-> JNum(n)]) : n \in FieldVal} \cup
            {Json([f \in Fields |-> IF f = "a" THEN JNum(n) ELSE JMissing]) : n \in FieldVal} \cup
            {Json([f \in Fields |-> IF f = "a" THEN JStr ELSE JNum(0)])}

\* json.Marshal that writes every field as a quoted string.
MarshalAsString(v) == Json([f \in Fields |-> JStr])

\* json.Marshal of a structure: an object with every field as a number.
Marshal(v) == Json([f \in Fields |-> JNum(v[f])])

\* json.Unmarshal(bytes, target): invalid JSON is rejected before the target
\* is touched; otherwise every member that fits is stored into its field, a
\* member of the wrong type is skipped and reported after the whole object
\* has been decoded, and a field without a member keeps what it held.
Unmarshal(bytes, target) ==
    IF bytes.kind # "json"
    THEN [val |-> target, err |-> TRUE]
    ELSE [val |-> [f \in Fields |->
                     IF bytes.obj[f].t = "num" THEN bytes.obj[f].n ELSE target[f]],
          err |-> \E f \in Fields : bytes.obj[f].t = "str"]

\* Decoding into a fresh structure.
Deserialize(bytes) == Unmarshal(bytes, ZeroValue).val

\* ModeOf with the "disable" literal falling through to the per-entry loop.
ModeOfDisableEnabled(r) ==
    IF r.kind = "err" THEN "Disabled"
    ELSE IF r.kind = "absent" THEN "Disabled"
    ELSE IF r.kind = "text" /\ r.text = Disable THEN "Enabled"
    ELSE IF r.kind = "text" /\ r.text = Enable THEN "Enabled"
    ELSE "Unknown"

\* ModeOf with the error of the control Get returned to the caller.
ModeOfErrUnknown(r) ==
    IF r.kind = "err" THEN "Unknown"
    ELSE IF r.kind = "absent" THEN "Disabled"
    ELSE IF r.kind = "text" /\ r.text = Disable THEN "Disabled"
    ELSE IF r.kind = "text" /\ r.text = Enable THEN "Enabled"
    ELSE "Unknown"

\* ModeOf with every value other than "disable" read as "enable".
ModeOfUnknownEnabled(r) ==
    IF r.kind = "err" THEN "Disabled"
    ELSE IF r.kind = "absent" THEN "Disabled"
    ELSE IF r.kind = "text" /\ r.text = Disable THEN "Disabled"
    ELSE "Enabled"

\* The branches of lines 159-171 on the result of the Get of the control key.
ModeOf(r) ==
    IF r.kind = "err" THEN "Disabled"
    ELSE IF r.kind = "absent" THEN "Disabled"
    ELSE IF r.kind = "text" /\ r.text = Disable THEN "Disabled"
    ELSE IF r.kind = "text" /\ r.text = Enable THEN "Enabled"
    ELSE "Unknown"

\* UpdateStep that finds a record and keeps the local value.
UpdateStepNoAdopt(r, target) ==
    IF r.kind = "err" THEN [val |-> target, next |-> "continue"]
    ELSE IF r.kind = "absent" THEN [val |-> target, next |-> "put"]
    ELSE [val |-> target, next |-> "continue"]

\* UpdateStep that logs a decode error and returns nil.
UpdateStepDecodeErrIgnored(r, target) ==
    IF r.kind = "err" THEN [val |-> target, next |-> "continue"]
    ELSE IF r.kind = "absent" THEN [val |-> target, next |-> "put"]
    ELSE [val |-> Unmarshal(r, target).val, next |-> "continue"]

\* UpdateStep that returns the error of the Get.
UpdateStepGetErrFatal(r, target) ==
    IF r.kind = "err" THEN [val |-> target, next |-> "error"]
    ELSE IF r.kind = "absent" THEN [val |-> target, next |-> "put"]
    ELSE LET u == Unmarshal(r, target)
         IN  [val |-> u.val, next |-> IF u.err THEN "error" ELSE "continue"]

\* PutStep that returns the error of the Put.
PutStepErrFatal(ok) == [res |-> IF ok THEN "ok" ELSE "err",
                        next |-> IF ok THEN "continue" ELSE "error"]

\* The outcome of the seeding Put (lines 185-189): its error is logged and
\* update() returns nil either way.
PutStep(ok) == [res |-> IF ok THEN "ok" ELSE "err", next |-> "continue"]

\* The body of update() after its Get (lines 176-195): the value the
\* structure holds afterwards and what update() does next.
UpdateStep(r, target) ==
    IF r.kind = "err" THEN [val |-> target, next |-> "continue"]
    ELSE IF r.kind = "absent" THEN [val |-> target, next |-> "put"]
    ELSE LET u == Unmarshal(r, target)
         IN  [val |-> u.val, next |-> IF u.err THEN "error" ELSE "continue"]

\* ------------------------------------------------------------------ state
VARIABLES
    pc,            \* position in persistentPreRun
    configMap,     \* keys of opts.configMap
    files,         \* what config.Load yields for each slot when it succeeds
    disConfig,     \* disConfig.Enable as loaded by initEtcd ("" before)
    etcdClient,    \* r.etcdClient: "nil", "open" or "closed"
    configStruct,  \* the structures behind opts.configMap and r.log
    store,         \* contents of the coordination store
    store0,        \* contents of the store when the process started
    res,           \* what the Get of the control key returned (line 158)
    pending,       \* config-map entries the range loop has not visited
    cur,           \* the slot update() is working on
    etcdRes,       \* per slot, what the Get of update() returned
    putRes,        \* per slot: "none", "ok" or "err" for the Put of update(),
                   \* "marshal" when json.Marshal failed before it
    gets,          \* per key, number of Gets issued
    puts,          \* per key, number of Puts issued
    result,        \* "none", "ok", "err" or "panic"
    errAt,         \* the step that produced the error or panic
    loggerCfg,     \* <<r.log>> as handed to the logger, << >> before
    peer           \* a second process reconciling its r.log on the same store

vars == <<pc, configMap, files, disConfig, etcdClient, configStruct, store,
          store0, res,
          pending, cur, etcdRes, putRes, gets, puts, result, errAt, loggerCfg,
          peer>>

Keys == KeysFor(configMap)

\* No second process is running.
PeerOff == [pc |-> "off", files |-> ZeroValue, configStruct |-> ZeroValue,
            etcdRes |-> NoRes]

\* The state persistentPreRun starts in, for a caller's map among cms, local
\* values among vals, and a store whose control key holds one of ctl, whose
\* log key holds one of logBytes and whose other entry keys hold one of
\* mapBytes.
InitWith(cms, vals, ctl, mapBytes, logBytes) ==
    /\ pc = "initEtcd"
    /\ configMap \in cms
    /\ files \in [Slots(configMap) -> vals]
    /\ disConfig = ""
    /\ etcdClient = "nil"
    /\ configStruct = [s \in Slots(configMap) |-> ZeroValue]
    /\ \E c \in ctl,
          e \in [{BuildKey(NameOf(s)) : s \in Slots(configMap)} -> mapBytes \cup logBytes] :
          /\ \A k \in DOMAIN e :
                e[k] \in IF k = BuildKey(LogConfigFileName) THEN logBytes ELSE mapBytes
          /\ store = [k \in KeysFor(configMap) |->
                     IF k = ControlKey THEN c
                     ELSE IF k = FreeKey THEN Absent
                     ELSE IF k = ForeignKey THEN Text("maybe")
                     ELSE e[k]]
    /\ store0 = store
    /\ res = NoRes
    /\ pending = {}
    /\ cur = ""
    /\ etcdRes = [s \in Slots(configMap) |-> NoRes]
    /\ putRes = [s \in Slots(configMap) |-> "none"]
    /\ gets = [k \in KeysFor(configMap) |-> 0]
    /\ puts = [k \in KeysFor(configMap) |-> 0]
    /\ result = "none"
    /\ errAt = ""
    /\ loggerCfg = << >>

Init ==
    /\ InitWith(ConfigMaps, Value, ControlBytes, MapBytes, EntryBytes)
    /\ peer = PeerOff

\* return err / panic out of persistentPreRun
Return(r, at) ==
    /\ pc' = "returned"
    /\ result' = r
    /\ errAt' = at

\* initEtcd (lines 89-106) as called at line 109.
InitEtcd ==
    /\ pc = "initEtcd"
    /\ \/ \* config.Load of the discovery file fails
          /\ Return("err", "initEtcd")
          /\ UNCHANGED <<disConfig, etcdClient>>
       \/ \* discovery is not etcd: no client
          /\ disConfig' = "other"
          /\ pc' = "initializeConfiguration"
          /\ UNCHANGED <<etcdClient, result, errAt>>
       \/ \* etcd, NewDiscoveryRegister succeeds
          /\ disConfig' = ETCDCONST
          /\ etcdClient' = "open"
          /\ pc' = "initializeConfiguration"
          /\ UNCHANGED <<result, errAt>>
       \/ \* etcd, NewDiscoveryRegister fails: its error is dropped and the
          \* type assertion on the nil interface panics
          /\ disConfig' = ETCDCONST
          /\ Return("panic", "initEtcd")
          /\ UNCHANGED etcdClient
    /\ UNCHANGED <<peer, configMap, files, configStruct, store, store0, res, pending,
                   cur, etcdRes, putRes, gets, puts, loggerCfg>>

\* initializeConfiguration (lines 129-150): load every map entry, then r.log.
InitializeConfiguration ==
    /\ pc = "initializeConfiguration"
    /\ \/ /\ configStruct' = files
          /\ pc' = "updateConfigFromEtcd"
          /\ UNCHANGED <<result, errAt>>
       \/ \* a Load fails after the entries in done were loaded
          \E done \in SUBSET configMap :
             /\ configStruct' = [s \in Slots(configMap) |->
                                   IF s \in done THEN files[s] ELSE configStruct[s]]
             /\ Return("err", "initializeConfiguration")
    /\ UNCHANGED <<peer, configMap, files, disConfig, etcdClient, store, store0, res,
                   pending, cur, etcdRes, putRes, gets, puts, loggerCfg>>

\* What a Get of key k can return: an error, or what the store holds.
GetResults(k) == {ErrRes, store[k]}

\* A store call made with context.TODO() (line 156) that never receives a
\* response: the call has no deadline and never returns.
Block ==
    /\ pc' = "blocked"
    /\ UNCHANGED <<result, errAt>>

\* updateConfigFromEtcd up to the per-entry loop (lines 152-171).
ResolveMode ==
    /\ pc = "updateConfigFromEtcd"
    /\ IF etcdClient = "nil"
       THEN /\ pc' = "initializeLogger"
            /\ UNCHANGED <<res, gets, pending, result, errAt>>
       ELSE /\ gets' = [gets EXCEPT ![ControlKey] = @ + 1]
            /\ \/ \E r \in GetResults(ControlKey) :
                   /\ res' = r
                   /\ CASE ModeOf(r) = "Disabled" ->
                             /\ pc' = "initializeLogger"
                             /\ UNCHANGED <<pending, result, errAt>>
                        [] ModeOf(r) = "Enabled" ->
                             /\ pc' = "update"
                             /\ pending' = configMap
                             /\ UNCHANGED <<result, errAt>>
                        [] OTHER ->
                             /\ Return("err", "updateConfigFromEtcd")
                             /\ UNCHANGED pending
               \/ /\ Block
                  /\ UNCHANGED <<res, pending>>
    /\ UNCHANGED <<peer, configMap, files, disConfig, etcdClient, configStruct, store,
                   store0, cur, etcdRes, putRes, puts, loggerCfg>>

\* Continue that leaves the entry in the set the loop still has to visit.
ContinueKeepPending(s) ==
    /\ pending' = pending
    /\ pc' = IF s = LogSlot THEN "initializeLogger" ELSE "update"
    /\ cur' = ""
    /\ UNCHANGED <<result, errAt>>

\* update() returned nil for slot s: the range loop goes on, and after the
\* call for r.log updateConfigFromEtcd returns nil (lines 197-206).
Continue(s) ==
    /\ pending' = pending \ {s}
    /\ pc' = IF s = LogSlot THEN "initializeLogger" ELSE "update"
    /\ cur' = ""
    /\ UNCHANGED <<result, errAt>>

\* The slots the next call of update() may be for: any entry the range loop
\* has left (map order is unspecified), and r.log once the loop is over.
NextSlots == IF pending # {} THEN pending ELSE {LogSlot}

\* update() from its Get to the Put or to its return (lines 173-180, 191-195).
UpdateGet(s) ==
    /\ pc = "update"
    /\ s \in NextSlots
    /\ LET k == BuildKey(NameOf(s)) IN
       /\ gets' = [gets EXCEPT ![k] = @ + 1]
       /\ \/ \E r \in GetResults(k) :
              LET u == UpdateStep(r, configStruct[s]) IN
               /\ etcdRes' = [etcdRes EXCEPT ![s] = r]
               /\ configStruct' = [configStruct EXCEPT ![s] = u.val]
               /\ CASE u.next = "continue" -> Continue(s)
                    [] u.next = "put" ->
                         /\ pc' = "put"
                         /\ cur' = s
                         /\ UNCHANGED <<pending, result, errAt>>
                    [] OTHER ->
                         /\ Return("err", "updateConfigFromEtcd")
                         /\ UNCHANGED <<pending, cur>>
          \/ /\ Block
             /\ cur' = s
             /\ UNCHANGED <<etcdRes, configStruct, pending>>
    /\ UNCHANGED <<peer, configMap, files, disConfig, etcdClient, store, store0, res,
                   putRes, puts, loggerCfg>>

\* The seeding branch of update() (lines 181-189): json.Marshal, whose
\* error is returned, then the Put, whose error is only logged.  Whether a
\* value of the caller's type serializes is not fixed by its two fields, so
\* both outcomes of json.Marshal are possible.
UpdatePut ==
    /\ pc = "put"
    /\ LET k == BuildKey(NameOf(cur))
           seeded == [store EXCEPT ![k] = Marshal(configStruct[cur])]
       IN
       \/ /\ putRes' = [putRes EXCEPT ![cur] = "marshal"]
          /\ Return("err", "updateConfigFromEtcd")
          /\ UNCHANGED <<store, puts, pending, cur>>
       \/ \E ok \in BOOLEAN :
            LET p == PutStep(ok) IN
             /\ puts' = [puts EXCEPT ![k] = @ + 1]
             /\ store' = IF ok THEN seeded ELSE store
             /\ putRes' = [putRes EXCEPT ![cur] = p.res]
             /\ IF p.next = "continue"
                THEN Continue(cur)
                ELSE /\ Return("err", "updateConfigFromEtcd")
                     /\ UNCHANGED <<pending, cur>>
       \/ /\ puts' = [puts EXCEPT ![k] = @ + 1]
          /\ store' \in {store, seeded}
          /\ Block
          /\ UNCHANGED <<putRes, pending, cur>>
    /\ UNCHANGED <<peer, configMap, files, disConfig, etcdClient, configStruct, store0,
                   res, etcdRes, gets, loggerCfg>>

\* initializeLogger (lines 219-238) as called at line 119.
InitializeLogger ==
    /\ pc = "initializeLogger"
    /\ loggerCfg' = <<configStruct[LogSlot]>>
    /\ \/ /\ pc' = "close"
          /\ UNCHANGED <<result, errAt>>
       \/ Return("err", "initializeLogger")
    /\ UNCHANGED <<peer, configMap, files, disConfig, etcdClient, configStruct, store,
                   store0, res, pending, cur, etcdRes, putRes, gets, puts>>

\* r.etcdClient.Close() and the return of persistentPreRun (lines 122-126).
CloseClient ==
    /\ pc = "close"
    /\ IF etcdClient = "nil"
       THEN \* method call through a nil *clientv3.Client
            /\ Return("panic", "close")
            /\ UNCHANGED etcdClient
       ELSE /\ etcdClient' = "closed"
            /\ \/ Return("ok", "")
               \/ Return("err", "close")
    /\ UNCHANGED <<peer, configMap, files, disConfig, configStruct, store, store0, res,
                   pending, cur, etcdRes, putRes, gets, puts, loggerCfg>>

Next ==
    \/ InitEtcd
    \/ InitializeConfiguration
    \/ ResolveMode
    \/ \E s \in Slots(configMap) : UpdateGet(s)
    \/ UpdatePut
    \/ InitializeLogger
    \/ CloseClient

Spec == Init /\ [][Next]_vars

\* Callers with two config-map entries, one of them possibly named as the log
\* config, in Enabled mode; every field of a value or record holds the same
\* number.
WideConfigMaps == {{ShareFileName, ChatFileName}, {ShareFileName, LogConfigFileName}}
UniformValue == {[f \in Fields |-> n] : n \in FieldVal}
WideBytes == {Absent, Text("maybe")} \cup
             {Json([f \in Fields |-> JNum(v[f])]) : v \in UniformValue}

InitWide ==
    /\ InitWith(WideConfigMaps, UniformValue, {Text(Enable)}, WideBytes, WideBytes)
    /\ peer = PeerOff

SpecWide == InitWide /\ [][Next]_vars

\* A second process of the fleet, started with the default options (no
\* config map) against the same store, inside its own updateConfigFromEtcd in
\* Enabled mode: its call of update() for r.log, with no store failure.
PeerStart(v) == [pc |-> "update", files |-> v, configStruct |-> v, etcdRes |-> NoRes]

\* The peer's update(): the Get and what follows it (lines 175-180, 191-195).
PeerGet ==
    /\ peer.pc = "update"
    /\ LET r == store[BuildKey(LogConfigFileName)]
           u == UpdateStep(r, peer.configStruct)
       IN  peer' = [peer EXCEPT !.etcdRes = r,
                                !.configStruct = u.val,
                                !.pc = CASE u.next = "continue" -> "done"
                                         [] u.next = "put" -> "put"
                                         [] OTHER -> "failed"]
    /\ UNCHANGED <<pc, configMap, files, disConfig, etcdClient, configStruct,
                   store, store0, res, pending, cur, etcdRes, putRes, gets, puts,
                   result, errAt, loggerCfg>>

\* The peer's update(): the seeding Put (lines 181-189).
PeerPut ==
    /\ peer.pc = "put"
    /\ store' = [store EXCEPT ![BuildKey(LogConfigFileName)] = Marshal(peer.configStruct)]
    /\ peer' = [peer EXCEPT !.pc = "done"]
    /\ UNCHANGED <<pc, configMap, files, disConfig, etcdClient, configStruct,
                   store0, res, pending, cur, etcdRes, putRes, gets, puts,
                   result, errAt, loggerCfg>>

\* Two processes without config map in Enabled mode; the log key holds no
\* record or the serialized form of a value.
PeerBytes == {Absent} \cup {Json([f \in Fields |-> JNum(v[f])]) : v \in Value}

InitPeers ==
    /\ InitWith({{}}, Value, {Text(Enable)}, PeerBytes, PeerBytes)
    /\ peer \in {PeerStart(v) : v \in Value}

NextPeers ==
    \/ Next
    \/ PeerGet
    \/ PeerPut

SpecPeers == InitPeers /\ [][NextPeers]_vars

\* The scheduler keeps running the goroutine of persistentPreRun while it
\* has a step to take.
FairSpec == Spec /\ WF_vars(Next)

\* ------------------------------------------------------------- vocabulary
KeyOf(s) == BuildKey(NameOf(s))
EntryKeys == Keys \ {ControlKey}

\* updateConfigFromEtcd has returned nil.
ReconOk ==
    \/ pc \in {"initializeLogger", "close"}
    \/ pc = "returned" /\ errAt \in {"initializeLogger", "close", ""}

\* updateConfigFromEtcd has returned an error.
ReconErr == pc = "returned" /\ errAt = "updateConfigFromEtcd"

\* The control Get was issued and resolved the mode to Disabled: it failed,
\* found no key, or found the literal "disable".
ResolvedDisabled == res.kind \in {"err", "absent"} \/ res = Text(Disable)

\* The control Get found the literal "enable".
ResolvedEnabled == res = Text(Enable)

\* The control Get found a value that is neither literal.
ResolvedUnknown == res.kind \in {"text", "json"} /\ res.text \notin {Enable, Disable}

\* A record that is the serialized form of a value of the structure.
ValidRecord(b) == b.kind = "json" /\ \A f \in Fields : b.obj[f].t = "num"

\* The value a valid record stands for.
ValueIn(b) == [f \in Fields |-> b.obj[f].n]

NoEntryOps == \A k \in EntryKeys : gets[k] = 0 /\ puts[k] = 0

\* ------------------------------------------------------------------ claims

\* C1: when the mode resolves to Disabled (control key absent, its Get
\* fails, or it holds "disable"), every config-map entry and r.log hold the
\* locally loaded values, and updateConfigFromEtcd has returned.
C1_DisabledKeepsLocal ==
    ResolvedDisabled => (ReconOk /\ configStruct = files)

\* C1 witness: Disabled, bootstrap finished, although the store holds a valid
\* record for r.log that differs from the local value.
C1_Witness ==
    /\ ResolvedDisabled
    /\ pc = "returned" /\ result = "ok"
    /\ ValidRecord(store[KeyOf(LogSlot)])
    /\ ValueIn(store[KeyOf(LogSlot)]) # files[LogSlot]

\* C2: when the mode resolves to Disabled, reconciliation returns success and
\* the single Get of the control key is the only store operation.
C2_DisabledNoEntryOps ==
    ResolvedDisabled =>
        /\ ReconOk
        /\ NoEntryOps
        /\ gets[ControlKey] = 1 /\ puts[ControlKey] = 0
        /\ store = store0

\* C2 witness: the control Get failed although the key holds "enable", and
\* the bootstrap finished.
C2_Witness ==
    /\ res = ErrRes
    /\ store[ControlKey] = Text(Enable)
    /\ pc = "returned" /\ result = "ok"

\* C3 as stated: in Enabled mode, once reconciliation has returned
\* successfully, every entry whose key held a valid record at the start holds
\* the value of that record, and no Put was issued for its key.
C3_Original ==
    (ReconOk /\ ResolvedEnabled) =>
        \A s \in Slots(configMap) :
            ValidRecord(store0[KeyOf(s)]) =>
                /\ configStruct[s] = Deserialize(store0[KeyOf(s)])
                /\ puts[KeyOf(s)] = 0

\* C3 amended: for every entry whose Get returned a valid record, the
\* in-memory value is the value of that record, whatever was loaded locally,
\* and no Put is issued for its key.
C3_AdoptsValidRecord ==
    \A s \in Slots(configMap) :
        ValidRecord(etcdRes[s]) =>
            /\ ResolvedEnabled
            /\ configStruct[s] = ValueIn(etcdRes[s])
            /\ configStruct[s] = Deserialize(store[KeyOf(s)])
            /\ putRes[s] = "none" /\ puts[KeyOf(s)] = 0

\* C3 witness: r.log adopted a valid record that differs from its local value
\* and the bootstrap finished.
C3_Witness ==
    /\ ValidRecord(etcdRes[LogSlot])
    /\ ValueIn(etcdRes[LogSlot]) # files[LogSlot]
    /\ configStruct[LogSlot] # files[LogSlot]
    /\ pc = "returned" /\ result = "ok"

\* C4 as stated: in Enabled mode, once reconciliation has returned
\* successfully, every key that held no record at the start holds the
\* serialized local value of its entry, and decoding it gives that value back.
C4_Original ==
    (ReconOk /\ ResolvedEnabled) =>
        \A s \in Slots(configMap) :
            store0[KeyOf(s)] = Absent =>
                /\ store[KeyOf(s)] = Json([f \in Fields |-> JNum(files[s][f])])
                /\ Deserialize(store[KeyOf(s)]) = files[s]

\* C4 amended: for every entry whose Get found no record and whose Put
\* succeeded, the store holds the serialized local value under the entry's
\* key, and decoding it gives the local value back.
C4_SeedRoundTrip ==
    \A s \in Slots(configMap) :
        putRes[s] = "ok" =>
            /\ ResolvedEnabled /\ etcdRes[s] = Absent
            /\ store[KeyOf(s)] = Json([f \in Fields |-> JNum(files[s][f])])
            /\ Deserialize(store[KeyOf(s)]) = files[s]
            /\ configStruct[s] = files[s]

\* C4 witness: r.log with a local value other than the zero value was seeded
\* and the bootstrap finished.
C4_Witness ==
    /\ putRes[LogSlot] = "ok"
    /\ store0[KeyOf(LogSlot)] = Absent
    /\ files[LogSlot] # ZeroValue
    /\ pc = "returned" /\ result = "ok"

\* C5: when the control key holds a value other than "enable" and "disable",
\* reconciliation returns an error, no entry's value is changed and no
\* per-entry Get or Put is issued.
C5_UnknownModeAborts ==
    ResolvedUnknown =>
        /\ ReconErr /\ result = "err"
        /\ configStruct = files
        /\ NoEntryOps
        /\ store = store0
        /\ loggerCfg = << >>

\* C5 witness: the control key holds "maybe" and the store holds a valid
\* record for r.log that differs from the local value.
C5_Witness ==
    /\ res = Text("maybe")
    /\ ReconErr
    /\ ValidRecord(store[KeyOf(LogSlot)])
    /\ ValueIn(store[KeyOf(LogSlot)]) # files[LogSlot]

\* C6 as stated: whenever persistentPreRun has returned and a store client
\* was acquired, the client has been closed.
C6_ClosedOnEveryExit ==
    (pc = "returned" /\ etcdClient # "nil") => etcdClient = "closed"

\* C7 as stated: with no store configured, and local load and logger init
\* successful, persistentPreRun issues no store operation, does not fail at
\* the Close, and returns success with every entry at its local value.
C7_NoStoreBootSucceeds ==
    (/\ pc = "returned"
     /\ disConfig = "other"
     /\ errAt \notin {"initializeConfiguration", "initializeLogger"}) =>
        /\ result = "ok"
        /\ configStruct = files
        /\ NoEntryOps /\ gets[ControlKey] = 0

\* C8: in Enabled mode a failed Get for an entry leaves the entry at its local
\* value and makes update() return nil, so the loop goes on to the remaining
\* entries; when reconciliation has returned successfully every entry,
\* r.log included, has been processed.
C8_GetErrorAbsorbed ==
    /\ [](\A s \in Slots(configMap) :
             etcdRes[s] = ErrRes =>
                 /\ configStruct[s] = files[s]
                 /\ putRes[s] = "none")
    /\ []((ReconOk /\ ResolvedEnabled) =>
             \A s \in Slots(configMap) : etcdRes[s] # NoRes)
    /\ [][\A s \in Slots(configMap) :
             (etcdRes[s] = NoRes /\ etcdRes'[s] = ErrRes) =>
                 /\ result' = "none"
                 /\ pending' = pending \ {s}
                 /\ pc' = IF s = LogSlot THEN "initializeLogger" ELSE "update"]_vars

\* C8 witness: the Get for a config-map entry failed, r.log was then
\* reconciled from the store, and the bootstrap finished.
C8_Witness ==
    /\ \E s \in configMap : etcdRes[s] = ErrRes
    /\ ValidRecord(etcdRes[LogSlot])
    /\ configStruct[LogSlot] = ValueIn(etcdRes[LogSlot])
    /\ pc = "returned" /\ result = "ok"

\* Local loading has succeeded.
Loaded ==
    \/ pc \in {"updateConfigFromEtcd", "update", "put", "blocked",
               "initializeLogger", "close"}
    \/ pc = "returned" /\ errAt \in {"updateConfigFromEtcd", "initializeLogger", "close", ""}

\* C9 as stated: once loaded, and unless reconciliation has failed, every
\* entry holds either its complete local value or the complete value decoded
\* from the record stored under its key.
C9_AllOrNothing ==
    (Loaded /\ ~ReconErr) =>
        \A s \in Slots(configMap) :
            \/ configStruct[s] = files[s]
            \/ /\ store[KeyOf(s)].kind = "json"
               /\ configStruct[s] = Deserialize(store[KeyOf(s)])

\* C10 as stated: with an etcd store configured, local load and logger init
\* successful and no unknown-mode or decode error, persistentPreRun returns
\* success whatever the store does.
C10_StoreFailureNeverBlocks ==
    (/\ pc = "returned"
     /\ disConfig = ETCDCONST
     /\ errAt \notin {"initializeConfiguration", "updateConfigFromEtcd",
                      "initializeLogger"}) =>
        result = "ok"

\* Bytes that json.Unmarshal rejects for a structure: not JSON, or an object
\* with a member of the wrong type.
Undecodable(b) ==
    \/ b.kind = "text"
    \/ b.kind = "json" /\ \E f \in Fields : b.obj[f].t = "str"

\* persistentPreRun has left updateConfigFromEtcd, with nil or an error.
ReconReturned == ReconOk \/ ReconErr

\* C11 as stated: in Enabled mode, when the store holds under an entry's key
\* a record that does not decode, the logger is never initialized and
\* reconciliation returns an error.
C11_Original ==
    (ResolvedEnabled /\ \E s \in Slots(configMap) : Undecodable(store0[KeyOf(s)])) =>
        /\ loggerCfg = << >>
        /\ ReconReturned => ReconErr

\* C11 amended: when the Get of an entry's key returns a record that does not
\* decode, reconciliation has returned an error, persistentPreRun has
\* returned it, and the logger is never initialized.
C11_DecodeErrorFatal ==
    \A s \in Slots(configMap) :
        Undecodable(etcdRes[s]) =>
            /\ ReconErr /\ result = "err"
            /\ loggerCfg = << >>

\* C11 witness: the record of r.log has a member of the wrong type and
\* persistentPreRun returned the error.
C11_Witness ==
    /\ etcdRes[LogSlot].kind = "json"
    /\ Undecodable(etcdRes[LogSlot])
    /\ ReconErr

C13_Original ==
    (ReconOk /\ ResolvedEnabled) =>
        \A s \in Slots(configMap) :
            store0[KeyOf(s)] = Absent =>
                /\ puts[KeyOf(s)] = 1
                /\ configStruct[s] = files[s]

\* C13 amended: for an entry whose Get found no record and whose local value
\* serialized, update() issues exactly one Put, of the serialized local
\* value, and leaves the entry at its local value; a failed Put is not
\* retried and update() returns nil, so the loop continues.
C13_SeedOncePutErrorAbsorbed ==
    /\ [](\A s \in Slots(configMap) :
             (etcdRes[s] = Absent /\ cur # s) =>
                 /\ putRes[s] \in {"ok", "err"}
                 /\ puts[KeyOf(s)] = 1
                 /\ configStruct[s] = files[s]
                 /\ putRes[s] = "ok" =>
                        store[KeyOf(s)] = Json([f \in Fields |-> JNum(files[s][f])]))
    /\ [](\A k \in Keys : puts[k] <= 1)
    /\ [][\A s \in Slots(configMap) :
             (putRes[s] = "none" /\ putRes'[s] = "err") =>
                 /\ result' = "none"
                 /\ store' = store
                 /\ pending' = pending \ {s}
                 /\ pc' = IF s = LogSlot THEN "initializeLogger" ELSE "update"]_vars

\* C13 witness: the Put for a config-map entry failed, the key still holds
\* no record, and the bootstrap finished.
C13_Witness ==
    /\ \E s \in configMap :
          /\ putRes[s] = "err"
          /\ store[KeyOf(s)] = Absent
          /\ puts[KeyOf(s)] = 1
    /\ etcdRes[LogSlot] # NoRes
    /\ pc = "returned" /\ result = "ok"

\* C14 as stated: initEtcd precedes local loading, loading precedes every
\* store operation of reconciliation, the logger is initialized only after
\* reconciliation has returned nil, the client is closed only after the
\* logger was initialized, and the logger receives the final value of r.log,
\* which is the stored value if one was adopted and the local value otherwise.
C14_OrderAndLoggerValue ==
    /\ Loaded => disConfig # ""
    /\ (res # NoRes \/ \E s \in Slots(configMap) : etcdRes[s] # NoRes) => Loaded
    /\ loggerCfg # << >> => ReconOk /\ pc # "initializeLogger"
    /\ etcdClient = "closed" => loggerCfg # << >>
    /\ loggerCfg # << >> =>
          /\ loggerCfg[1] = configStruct[LogSlot]
          /\ \/ loggerCfg[1] = files[LogSlot]
             \/ /\ store[KeyOf(LogSlot)].kind = "json"
                /\ loggerCfg[1] = Deserialize(store[KeyOf(LogSlot)])

\* The calls of update() of lines 197-204 for the slots of seq, in that
\* order, with no store failure: the structures, the store and the result
\* updateConfigFromEtcd ends with.
RECURSIVE RunUpdates(_, _, _)
RunUpdates(seq, cs, st) ==
    IF seq = << >> THEN [cs |-> cs, st |-> st, result |-> "ok"]
    ELSE LET s == Head(seq)
             k == KeyOf(s)
             u == UpdateStep(st[k], cs[s])
             cs2 == [cs EXCEPT ![s] = u.val]
         IN  CASE u.next = "continue" -> RunUpdates(Tail(seq), cs2, st)
               [] u.next = "put" ->
                    RunUpdates(Tail(seq), cs2, [st EXCEPT ![k] = Marshal(cs[s])])
               [] OTHER -> [cs |-> cs2, st |-> st, result |-> "err"]

\* The orders in which the range loop may visit the config map, each followed
\* by the call for r.log.
Orders ==
    LET n == Cardinality(configMap) IN
    {q \o <<LogSlot>> : q \in {p \in [1..n -> configMap] :
                                 \A i, j \in 1..n : p[i] = p[j] => i = j}}

\* No Get or Put of the per-entry loop failed and json.Marshal succeeded.
NoStoreFailure ==
    \A s \in Slots(configMap) :
        etcdRes[s] # ErrRes /\ putRes[s] \notin {"err", "marshal"}

\* What this run of updateConfigFromEtcd ended with.
RunOutcome == [cs |-> configStruct, st |-> store,
               result |-> IF ReconOk THEN "ok" ELSE "err"]

\* C15 as stated: in Enabled mode with no store failure, the result, the
\* final values and the final store of a run are those of every iteration
\* order over the same config set and initial store, also when a record
\* fails to decode.
C15_Original ==
    (ReconReturned /\ ResolvedEnabled /\ NoStoreFailure) =>
        \A q \in Orders : RunUpdates(q, files, store0) = RunOutcome

\* C15 amended: every iteration order gives the same result; and when
\* reconciliation returns nil, the final values and the final store of a run
\* are those of every iteration order.
C15_OrderIndependentOnSuccess ==
    /\ \A p, q \in Orders :
          RunUpdates(p, files, store0).result = RunUpdates(q, files, store0).result
    /\ (ReconReturned /\ ResolvedEnabled /\ NoStoreFailure) =>
          \A q \in Orders :
             /\ RunUpdates(q, files, store0).result = RunOutcome.result
             /\ ReconOk => RunUpdates(q, files, store0) = RunOutcome

\* C15 witness: two config-map entries, one seeded and one reconciled from
\* the store, r.log seeded, and the bootstrap finished.
C15_Witness ==
    /\ configMap = {ShareFileName, ChatFileName}
    /\ putRes[ShareFileName] = "ok"
    /\ ValidRecord(etcdRes[ChatFileName])
    /\ configStruct[ChatFileName] # files[ChatFileName]
    /\ putRes[LogSlot] = "ok"
    /\ pc = "returned" /\ result = "ok"

\* The entries whose update() works on key k.
SlotsOfKey(k) == {s \in Slots(configMap) : KeyOf(s) = k}

\* C16 as stated: the control key is read at most once, and once when the
\* mode was resolved; every key is the target of at most one Get and one Put,
\* and of exactly one Get for each entry once reconciliation has returned nil
\* in Enabled mode.
C16_Original ==
    /\ gets[ControlKey] <= 1
    /\ res # NoRes => gets[ControlKey] = 1
    /\ \A k \in Keys : gets[k] <= 1 /\ puts[k] <= 1
    /\ (ReconOk /\ ResolvedEnabled) =>
          \A s \in Slots(configMap) : gets[KeyOf(s)] = 1

\* C16 amended: the control key is read at most once, and once when the mode
\* was resolved; update() runs once for each entry, with one Get and at most
\* one Put, so a key is the target of one Get and at most one Put for each
\* entry that derives it, and the result of an entry's Get and Put never
\* changes once set.
C16_OncePerEntry ==
    /\ [](/\ gets[ControlKey] <= 1 /\ puts[ControlKey] = 0
          /\ res # NoRes => gets[ControlKey] = 1
          /\ \A k \in Keys \ {ControlKey} :
                /\ gets[k] <= Cardinality(SlotsOfKey(k))
                /\ puts[k] <= gets[k]
          /\ (ReconOk /\ ResolvedEnabled) =>
                \A k \in Keys \ {ControlKey} : gets[k] = Cardinality(SlotsOfKey(k)))
    /\ [][\A s \in Slots(configMap) :
             /\ etcdRes[s] # NoRes => etcdRes'[s] = etcdRes[s]
             /\ putRes[s] # "none" => putRes'[s] = putRes[s]]_vars

\* C16 witness: the config map has an entry named as the log config; its Put
\* failed, so the key was read and written again for r.log, and the bootstrap
\* finished.
C16_Witness ==
    /\ LogConfigFileName \in configMap
    /\ gets[BuildKey(LogConfigFileName)] = 2
    /\ puts[BuildKey(LogConfigFileName)] = 2
    /\ pc = "returned" /\ result = "ok"

\* C17 as stated: persistentPreRun eventually returns, with success or with
\* an error, also when the store stops answering.
C17_BootstrapTerminates == <>(pc = "returned")

\* C18 as stated: with no store failure, a step never changes a key that
\* holds a record: a Put only creates a key.
C18_NeverOverwrites ==
    [][(NoStoreFailure /\ NoStoreFailure' /\ pc' # "blocked") =>
          \A k \in Keys : store[k] # Absent => store'[k] = store[k]]_vars

\* C19 as stated: with no store failure, once both processes have finished
\* reconciliation, the value of r.log of each equals the value decoded from
\* the record stored under the log key.
C19_ProcessesAgree ==
    (ReconOk /\ ResolvedEnabled /\ NoStoreFailure /\ peer.pc = "done") =>
        /\ configStruct[LogSlot] = Deserialize(store[KeyOf(LogSlot)])
        /\ peer.configStruct = Deserialize(store[KeyOf(LogSlot)])

\* The keys derived from the names of the config-map entries and of the log
\* entry.
DerivedKeys == {BuildKey(n) : n \in configMap \cup {LogConfigFileName}}

\* C20: the control key and every key that no entry derives hold what they
\* held at the start and are never the target of a Put, no record is ever
\* deleted, and a key whose content changed is a derived key that a Put was
\* issued for.
C20_StoreFrame ==
    /\ store[ControlKey] = store0[ControlKey]
    /\ \A k \in Keys \ DerivedKeys : store[k] = store0[k] /\ puts[k] = 0
    /\ \A k \in Keys : store0[k] # Absent => store[k] = store0[k]
    /\ \A k \in Keys : store[k] # store0[k] => (k \in DerivedKeys /\ puts[k] = 1)

\* C20 witness: a config-map entry and r.log were both seeded and the
\* bootstrap finished.
C20_Witness ==
    /\ configMap # {}
    /\ \A s \in Slots(configMap) : putRes[s] = "ok" /\ store[KeyOf(s)] # store0[KeyOf(s)]
    /\ pc = "returned" /\ result = "ok"

====
